---- MODULE Spec2Model ----
(***************************************************************************)
(* Model of src/utils/aio.c (POSIX / emulated branch, lines 343-607, and   *)
(* the platform independent sp_usock_init / sp_usock_tune, lines 41-159).  *)
(*                                                                         *)
(* Three specifications share the module:                                  *)
(*   Spec      - producer and consumer threads calling sp_cp_post and      *)
(*               sp_cp_wait on one completion port; every step between two *)
(*               synchronisation points is one action.                     *)
(*   SpecSeq   - one thread posting and waiting, long enough to drive the  *)
(*               64-slot ring through its capacity doublings.              *)
(*   SpecUsock - the user socket operations, one call at a time.           *)
(***************************************************************************)
EXTENDS Integers, Sequences, FiniteSets, Bags, TLC

(***************************************************************************)
(* Bounds of the model.                                                    *)
(***************************************************************************)
\* Number of sp_cp_post calls made in a behaviour of Spec.
MaxPosts == 3
\* Number of sp_cp_post calls made in a behaviour of SpecLive.
MaxLivePosts == 2
\* Number of sp_cp_post calls made in a behaviour of SpecSeq.
MaxSeqPosts == 130
\* Largest buffer length handed to sp_usock_send / sp_usock_recv.
MaxLen == 3

(***************************************************************************)
(* Program constants.                                                      *)
(***************************************************************************)
SP_CP_INITIAL_CAPACITY == 64

\* errno values (Linux numbering); EWOULDBLOCK is the same number as EAGAIN.
EINTR == 4
EAGAIN == 11
EWOULDBLOCK == 11
EPIPE == 32
EBADF == 9
ECONNRESET == 104
ENOTCONN == 107
ETIMEDOUT == 110
ECONNREFUSED == 111
EHOSTUNREACH == 113
EINPROGRESS == 115

\* Socket domains, types and the open-time close-on-exec flag (Linux).
AF_UNIX == 1
AF_INET == 2
AF_INET6 == 10
SOCK_STREAM == 1
SOCK_DGRAM == 2
SOCK_CLOEXEC == 524288
EMFILE == 24

(***************************************************************************)
(* Threads and payloads.                                                   *)
(***************************************************************************)
Producers == {"p1", "p2"}
Consumers == {"c1", "c2"}
Threads == Producers \cup Consumers
NoThread == "none"

\* Operation codes and opaque arguments the callers of sp_cp_post pass.
Ops == {1, 2}
Args == {"a"}
\* Timeouts the callers of sp_cp_wait pass: forever, poll, finite.
Timeouts == {-1, 0, 50}

\* Content of a slot of the items array the program never wrote.
Uninit == [op |-> 0, arg |-> "uninit"]
\* Value of the op / arg outputs of sp_cp_wait the call did not write.
Unwritten == [op |-> 0, arg |-> "unwritten"]
Item(op, arg) == [op |-> op, arg |-> arg]
\* What a read of a slot yields: the stored pair, or anything at all when
\* the slot was never written.
ReadSlot(slot) == IF slot = Uninit THEN {Item(o, a) : o \in Ops \cup {0}, a \in Args \cup {"uninit"}}
                  ELSE {slot}

VARIABLES
    cp,         \* struct sp_cp: sync, eventfd, capacity, head, tail, items
    pc,         \* position of every thread inside sp_cp_post / sp_cp_wait
    parg,       \* producer locals: op, arg, empty
    warg,       \* consumer locals: timeout, pass (1 before the poller, 2
                \* after it), rc, out (the op / arg outputs), popped, and
                \* quiet (history: the queue was empty when the call was
                \* made and no sp_cp_post has been called since)
    posted,     \* history: pairs stored by sp_cp_post, in mutex order
    delivered,  \* history: pairs handed out by sp_cp_wait, in mutex order
    calls,      \* history: number of sp_cp_post calls started
    sres,       \* SpecSeq: result of the last sp_cp_wait call
    platform,   \* SpecUsock: what the build defines (SOCK_CLOEXEC)
    usock,      \* SpecUsock: struct sp_usock of every user socket
    ucall,      \* SpecUsock: the last call made, its inputs and its outcome
    aborted     \* SpecUsock: a fatal assertion has ended the process

cpvars == <<cp, pc, parg, warg, posted, delivered, calls, sres>>
uvars == <<platform, usock, ucall, aborted>>
vars == <<cp, pc, parg, warg, posted, delivered, calls, sres,
          platform, usock, ucall, aborted>>

(***************************************************************************)
(* Completion queue: the code of sp_cp_init, sp_cp_post and sp_cp_wait as  *)
(* operators on the sp_cp structure.                                       *)
(***************************************************************************)
\* aio.c:349-362. The mutex is free, the eventfd is not signalled and the
\* allocated items are not initialised.
CpInit ==
    [sync     |-> NoThread,
     eventfd  |-> FALSE,
     capacity |-> SP_CP_INITIAL_CAPACITY,
     head     |-> 0,
     tail     |-> 0,
     items    |-> [i \in 0 .. SP_CP_INITIAL_CAPACITY - 1 |-> Uninit]]

\* Variant of CpGrow that leaves out the memcpy of the wrapped region.
CpGrowNoCopy(q) ==
    [q EXCEPT
       !.items    = [i \in 0 .. 2 * q.capacity - 1 |->
                        IF i < q.capacity THEN q.items[i] ELSE Uninit],
       !.tail     = q.tail + q.capacity,
       !.capacity = q.capacity * 2]

\* Variant of CpGrow that adds the initial capacity instead of doubling.
CpGrowLinear(q) ==
    [q EXCEPT
       !.items    = [i \in 0 .. q.capacity + SP_CP_INITIAL_CAPACITY - 1 |->
                        IF i < q.capacity THEN q.items[i]
                        ELSE IF i - q.capacity < q.tail
                             THEN q.items[i - q.capacity]
                             ELSE Uninit],
       !.tail     = q.tail + q.capacity,
       !.capacity = q.capacity + SP_CP_INITIAL_CAPACITY]

\* aio.c:390-396. sp_realloc to twice the capacity keeps the old slots and
\* adds uninitialised ones; memcpy copies the first `tail` slots to the
\* start of the new region.
CpGrow(q) ==
    [q EXCEPT
       !.items    = [i \in 0 .. 2 * q.capacity - 1 |->
                        IF i < q.capacity THEN q.items[i]
                        ELSE IF i - q.capacity < q.tail
                             THEN q.items[i - q.capacity]
                             ELSE Uninit],
       !.tail     = q.tail + q.capacity,
       !.capacity = q.capacity * 2]

\* aio.c:384. The `empty` local of sp_cp_post.
CpEmpty(q) == q.tail = q.head

\* Variant of CpStore that fills the slot after moving tail.
CpStoreAfterAdvance(q, op, arg) ==
    LET q1 == [q EXCEPT !.tail = (q.tail + 1) % q.capacity]
        q2 == [q1 EXCEPT !.items[q1.tail] = Item(op, arg)]
    IN  IF q2.head = q2.tail THEN CpGrow(q2) ELSE q2

\* Variant of CpStore that never grows the buffer.
CpStoreNoGrow(q, op, arg) ==
    LET q1 == [q EXCEPT !.items[q.tail] = Item(op, arg)]
    IN  [q1 EXCEPT !.tail = (q.tail + 1) % q.capacity]

\* aio.c:380-397. Store the pair at tail, advance tail, grow when the
\* advanced tail meets head.
CpStore(q, op, arg) ==
    LET q1 == [q EXCEPT !.items[q.tail] = Item(op, arg)]
        q2 == [q1 EXCEPT !.tail = (q.tail + 1) % q.capacity]
    IN  IF q2.head = q2.tail THEN CpGrow(q2) ELSE q2

\* Variant of CpSignal that never raises the signal.
CpSignalNever(q, empty) == q

\* aio.c:399-400.
CpSignal(q, empty) == IF empty THEN [q EXCEPT !.eventfd = TRUE] ELSE q

\* Variant of CpAdvanceHead that leaves head where it is.
CpAdvanceHeadStuck(q) == q

\* Variant of CpAdvanceHead that rewinds head and tail to slot 0 when the
\* pop empties the ring.
CpAdvanceHeadReset(q) ==
    IF (q.head + 1) % q.capacity = q.tail
    THEN [q EXCEPT !.head = 0, !.tail = 0]
    ELSE [q EXCEPT !.head = (q.head + 1) % q.capacity]

\* aio.c:416 and 438.
CpAdvanceHead(q) == [q EXCEPT !.head = (q.head + 1) % q.capacity]

\* Variant of CpUnsignal that never lowers the signal.
CpUnsignalNever(q) == q

\* Variant of CpUnsignal that lowers the signal after every pop.
CpUnsignalAlways(q) == [q EXCEPT !.eventfd = FALSE]

\* aio.c:417-418 and 439-440.
CpUnsignal(q) == IF q.head = q.tail THEN [q EXCEPT !.eventfd = FALSE] ELSE q

\* Events stored and not yet handed out, oldest first (a view of the ring
\* used by the properties only).
RECURSIVE RingFrom(_, _, _)
RingFrom(q, i, n) ==
    IF n = 0 THEN <<>>
    ELSE <<q.items[i % q.capacity]>> \o RingFrom(q, i + 1, n - 1)
Pending(q) == RingFrom(q, q.head, (q.tail - q.head + q.capacity) % q.capacity)

(***************************************************************************)
(* User sockets.                                                           *)
(***************************************************************************)
\* Sockets the caller sets up with sp_usock_init, and the structure it hands
\* to sp_usock_accept to be filled in.
Socks == {"u1"}
AcceptSocks == {"u2"}
AllSocks == Socks \cup AcceptSocks
\* The builds: POSIX with and without SOCK_CLOEXEC, and Windows.
Platforms == {[sock_cloexec |-> TRUE, windows |-> FALSE],
              [sock_cloexec |-> FALSE, windows |-> FALSE],
              [sock_cloexec |-> FALSE, windows |-> TRUE]}
Cps == {"cpA", "cpB"}
NULL == "NULL"
\* Flags of sp_usock_send / sp_usock_recv, as the set of the bits set.
SP_USOCK_PARTIAL == "SP_USOCK_PARTIAL"
FlagSets == {{}, {SP_USOCK_PARTIAL}}

\* struct sp_usock before sp_usock_init and after sp_usock_term.
NoSock == [live |-> FALSE, s |-> -1, domain |-> 0, type |-> 0, protocol |-> 0,
           aio |-> NULL, cloexec |-> FALSE, nonblock |-> FALSE,
           nodelay |-> FALSE]
NoSys == [nbytes |-> 0, errno |-> 0]
NoCall == [fn |-> "none", u |-> "none", len |-> 0, flags |-> {}, sys |-> NoSys,
           syscall |-> FALSE, ret |-> "return", rc |-> 0, outlen |-> 0,
           cp |-> NULL, prev |-> NULL, domain |-> 0, type |-> 0,
           fail |-> "none"]

\* type |= SOCK_CLOEXEC (aio.c:50).
BitOr(x, bit) == IF (x \div bit) % 2 = 1 THEN x ELSE x + bit

\* socket () hands out the lowest descriptor not in use.
FreeFd == CHOOSE fd \in 3 .. 3 + Cardinality(AllSocks) :
             /\ \A u \in AllSocks : usock[u].live => usock[u].s # fd
             /\ \A g \in 3 .. fd - 1 : \E u \in AllSocks : usock[u].live /\ usock[u].s = g

\* sp_usock_tune, aio.c:83-159, when every platform call succeeds: the
\* handle is made non-blocking; Nagle's algorithm is switched off when the
\* domain is AF_INET or AF_INET6 and the stored type equals SOCK_STREAM.
UsockTune(self) ==
    [self EXCEPT
       !.nonblock = TRUE,
       !.nodelay  = (self.domain = AF_INET \/ self.domain = AF_INET6)
                    /\ self.type = SOCK_STREAM]

\* sp_usock_init, aio.c:41-81, after socket () returned the descriptor s:
\* the fields are filled in from the arguments, type with SOCK_CLOEXEC
\* or-ed in when the build has it, the back-reference is NULL, the
\* close-on-exec flag is set at open time or by fcntl, and the socket is
\* tuned.
UsockInitOk(domain, type, protocol, s, cloexec) ==
    LET t == IF cloexec THEN BitOr(type, SOCK_CLOEXEC) ELSE type
    IN  UsockTune([live |-> TRUE, s |-> s, domain |-> domain, type |-> t,
                   protocol |-> protocol, aio |-> NULL, cloexec |-> TRUE,
                   nonblock |-> FALSE, nodelay |-> FALSE])

\* The platform calls of sp_usock_init and sp_usock_tune whose failure ends
\* in an assertion (aio.c:74-75, 108-115, 123-129, 142-151, 156-157), for
\* the build, the domain and the type as stored in the structure.
TuneSteps(pf, domain, type) ==
    (IF ~pf.sock_cloexec /\ ~pf.windows THEN {"cloexec"} ELSE {})
    \cup {"nonblock"}
    \cup (IF (domain = AF_INET \/ domain = AF_INET6) /\ type = SOCK_STREAM
          THEN {"nodelay"} ELSE {})
    \cup (IF domain = AF_INET6 THEN {"v6only"} ELSE {})
    \cup (IF pf.windows THEN {"inherit"} ELSE {})

\* sp_usock_accept of the Windows build, aio.c:277-297: the structure is
\* filled with a new handle s and the listener's domain, type and protocol;
\* sp_usock_tune is not called.
UsockAcceptWin(self, s) ==
    [live |-> TRUE, s |-> s, domain |-> self.domain, type |-> self.type,
     protocol |-> self.protocol, aio |-> NULL, cloexec |-> FALSE,
     nonblock |-> FALSE, nodelay |-> FALSE]

\* Variant of CpRegisterUsock without the assertion.
CpRegisterUsockNoAssert(self, u) ==
    [ret |-> "return", usock |-> [u EXCEPT !.aio = self]]

\* sp_cp_register_usock, aio.c:450-454.
CpRegisterUsock(self, u) ==
    IF u.aio # NULL THEN [ret |-> "sp_assert", usock |-> u]
    ELSE [ret |-> "return", usock |-> [u EXCEPT !.aio = self]]

\* Outcomes of the platform send () for a request of len > 0 bytes.
SendErrnos == {EAGAIN, EINTR, ECONNRESET, EPIPE, ENOTCONN}
SendOutcomes(len) ==
    {[nbytes |-> n, errno |-> 0] : n \in 1 .. len}
    \cup {[nbytes |-> -1, errno |-> e] : e \in SendErrnos}

\* Outcomes of the platform recv () for a request of len > 0 bytes.
RecvErrnos == {EAGAIN, EINTR, ECONNRESET, ECONNREFUSED, ETIMEDOUT,
               EHOSTUNREACH, ENOTCONN, EBADF}
RecvOutcomes(len) ==
    {[nbytes |-> n, errno |-> 0] : n \in 0 .. len}
    \cup {[nbytes |-> -1, errno |-> e] : e \in RecvErrnos}

Returns(rc, outlen, syscall) ==
    [ret |-> "return", rc |-> rc, outlen |-> outlen, syscall |-> syscall]
Asserts(kind, outlen) ==
    [ret |-> kind, rc |-> 0, outlen |-> outlen, syscall |-> TRUE]

\* Variant of UsockSend without the early return for a zero length.
UsockSendNoShortcut(len, sys) ==
    IF sys.nbytes = len THEN Returns(0, len, TRUE)
    ELSE IF sys.nbytes < 0 THEN
        IF sys.errno # EAGAIN /\ sys.errno # EWOULDBLOCK
            THEN Asserts("sp_assert", len)
        ELSE IF sys.errno = EINTR THEN Returns(-EINTR, len, TRUE)
        ELSE IF sys.errno = ECONNRESET \/ sys.errno = EPIPE
            THEN Returns(-ECONNRESET, len, TRUE)
        ELSE Asserts("errno_assert", len)
    ELSE Asserts("sp_assert", len)

\* Variant of UsockSend that reports a short send as pending.
UsockSendPending(len, sys) ==
    IF len = 0 THEN Returns(0, len, FALSE)
    ELSE IF sys.nbytes = len THEN Returns(0, len, TRUE)
    ELSE IF sys.nbytes < 0 THEN
        IF sys.errno # EAGAIN /\ sys.errno # EWOULDBLOCK
            THEN Asserts("sp_assert", len)
        ELSE IF sys.errno = EINTR THEN Returns(-EINTR, len, TRUE)
        ELSE IF sys.errno = ECONNRESET \/ sys.errno = EPIPE
            THEN Returns(-ECONNRESET, len, TRUE)
        ELSE Asserts("errno_assert", len)
    ELSE Returns(-EINPROGRESS, len, TRUE)

\* sp_usock_send, aio.c:507-552. len is *len on entry, sys what send ()
\* yields when it is called; outlen is *len on exit. Lengths stay far below
\* the range where the comparison of the signed nbytes with the unsigned
\* *len would wrap.
UsockSend(len, sys) ==
    IF len = 0 THEN Returns(0, len, FALSE)
    ELSE IF sys.nbytes = len THEN Returns(0, len, TRUE)
    ELSE IF sys.nbytes < 0 THEN
        IF sys.errno # EAGAIN /\ sys.errno # EWOULDBLOCK
            THEN Asserts("sp_assert", len)          \* goto async
        ELSE IF sys.errno = EINTR THEN Returns(-EINTR, len, TRUE)
        ELSE IF sys.errno = ECONNRESET \/ sys.errno = EPIPE
            THEN Returns(-ECONNRESET, len, TRUE)
        ELSE Asserts("errno_assert", len)
    ELSE Asserts("sp_assert", len)                  \* async

\* Variant of UsockRecv whose partial-read test accepts nbytes >= 0.
UsockRecvPartialZero(len, flags, sys) ==
    IF len = 0 THEN Returns(0, len, FALSE)
    ELSE IF sys.nbytes = len THEN Returns(0, len, TRUE)
    ELSE IF sys.nbytes >= 0 /\ SP_USOCK_PARTIAL \in flags
        THEN Returns(0, sys.nbytes, TRUE)
    ELSE IF sys.nbytes = 0 THEN Returns(-ECONNRESET, len, TRUE)
    ELSE IF sys.nbytes < 0 THEN
        IF sys.errno = EAGAIN \/ sys.errno = EWOULDBLOCK
            THEN Asserts("sp_assert", len)
        ELSE IF sys.errno = EINTR THEN Returns(-EINTR, len, TRUE)
        ELSE IF sys.errno \in {ECONNRESET, ECONNREFUSED, ETIMEDOUT,
                               EHOSTUNREACH, ENOTCONN}
            THEN Returns(-ECONNRESET, len, TRUE)
        ELSE Asserts("errno_assert", len)
    ELSE Asserts("sp_assert", len)

\* Variant of UsockRecv that does not store the count of a partial read.
UsockRecvKeepLen(len, flags, sys) ==
    IF len = 0 THEN Returns(0, len, FALSE)
    ELSE IF sys.nbytes = len THEN Returns(0, len, TRUE)
    ELSE IF sys.nbytes > 0 /\ SP_USOCK_PARTIAL \in flags
        THEN Returns(0, len, TRUE)
    ELSE IF sys.nbytes = 0 THEN Returns(-ECONNRESET, len, TRUE)
    ELSE IF sys.nbytes < 0 THEN
        IF sys.errno = EAGAIN \/ sys.errno = EWOULDBLOCK
            THEN Asserts("sp_assert", len)
        ELSE IF sys.errno = EINTR THEN Returns(-EINTR, len, TRUE)
        ELSE IF sys.errno \in {ECONNRESET, ECONNREFUSED, ETIMEDOUT,
                               EHOSTUNREACH, ENOTCONN}
            THEN Returns(-ECONNRESET, len, TRUE)
        ELSE Asserts("errno_assert", len)
    ELSE Asserts("sp_assert", len)

\* sp_usock_recv, aio.c:554-605.
UsockRecv(len, flags, sys) ==
    IF len = 0 THEN Returns(0, len, FALSE)
    ELSE IF sys.nbytes = len THEN Returns(0, len, TRUE)
    ELSE IF sys.nbytes > 0 /\ SP_USOCK_PARTIAL \in flags
        THEN Returns(0, sys.nbytes, TRUE)
    ELSE IF sys.nbytes = 0 THEN Returns(-ECONNRESET, len, TRUE)
    ELSE IF sys.nbytes < 0 THEN
        IF sys.errno = EAGAIN \/ sys.errno = EWOULDBLOCK
            THEN Asserts("sp_assert", len)          \* goto async
        ELSE IF sys.errno = EINTR THEN Returns(-EINTR, len, TRUE)
        ELSE IF sys.errno \in {ECONNRESET, ECONNREFUSED, ETIMEDOUT,
                               EHOSTUNREACH, ENOTCONN}
            THEN Returns(-ECONNRESET, len, TRUE)
        ELSE Asserts("errno_assert", len)
    ELSE Asserts("sp_assert", len)                  \* async

(***************************************************************************)
(* Spec: threads calling sp_cp_post and sp_cp_wait concurrently.          *)
(***************************************************************************)
NoSRes == [rc |-> 0, out |-> Unwritten]
NoPArg == [op |-> 0, arg |-> "none", empty |-> FALSE]
NoWArg == [timeout |-> 0, pass |-> 1, rc |-> 0, out |-> Unwritten,
           popped |-> FALSE, quiet |-> FALSE]

Init ==
    /\ cp = CpInit
    /\ pc = [t \in Threads |-> "idle"]
    /\ parg = [p \in Producers |-> NoPArg]
    /\ warg = [c \in Consumers |-> NoWArg]
    /\ posted = <<>>
    /\ delivered = <<>>
    /\ calls = 0
    /\ sres = NoSRes
    /\ platform = [sock_cloexec |-> TRUE, windows |-> FALSE]
    /\ usock = [u \in AllSocks |-> NoSock]
    /\ ucall = NoCall
    /\ aborted = FALSE

\* A caller enters sp_cp_post (op, arg).
PostCall(p) ==
    /\ pc[p] = "idle"
    /\ calls < MaxPosts
    /\ \E op \in Ops, arg \in Args :
          parg' = [parg EXCEPT ![p] = [op |-> op, arg |-> arg, empty |-> FALSE]]
    /\ pc' = [pc EXCEPT ![p] = "p_lock"]
    /\ calls' = calls + 1
    /\ warg' = [c \in Consumers |-> [warg[c] EXCEPT !.quiet = FALSE]]
    /\ UNCHANGED <<cp, posted, delivered, sres>>
    /\ UNCHANGED uvars

\* aio.c:377 sp_mutex_lock.
PostLock(p) ==
    /\ pc[p] = "p_lock"
    /\ cp.sync = NoThread
    /\ cp' = [cp EXCEPT !.sync = p]
    /\ pc' = [pc EXCEPT ![p] = "p_store"]
    /\ UNCHANGED <<parg, warg, posted, delivered, calls, sres>>
    /\ UNCHANGED uvars

\* aio.c:379-397.
PostStore(p) ==
    /\ pc[p] = "p_store"
    /\ parg' = [parg EXCEPT ![p].empty = CpEmpty(cp)]
    /\ cp' = CpStore(cp, parg[p].op, parg[p].arg)
    /\ posted' = Append(posted, Item(parg[p].op, parg[p].arg))
    /\ pc' = [pc EXCEPT ![p] = "p_signal"]
    /\ UNCHANGED <<warg, delivered, calls, sres>>
    /\ UNCHANGED uvars

\* aio.c:399-403: signal when the queue was empty, unlock, return.
PostSignal(p) ==
    /\ pc[p] = "p_signal"
    /\ cp' = [CpSignal(cp, parg[p].empty) EXCEPT !.sync = NoThread]
    /\ parg' = [parg EXCEPT ![p] = NoPArg]
    /\ pc' = [pc EXCEPT ![p] = "idle"]
    /\ UNCHANGED <<warg, posted, delivered, calls, sres>>
    /\ UNCHANGED uvars

\* A caller enters sp_cp_wait (timeout).
WaitCall(c) ==
    /\ pc[c] = "idle"
    /\ \E t \in Timeouts :
          warg' = [warg EXCEPT ![c] =
                      [NoWArg EXCEPT !.timeout = t,
                                     !.quiet = /\ \A p \in Producers : pc[p] = "idle"
                                               /\ Len(posted) = Len(delivered)]]
    /\ pc' = [pc EXCEPT ![c] = "w_lock"]
    /\ UNCHANGED <<cp, parg, posted, delivered, calls, sres>>
    /\ UNCHANGED uvars

\* aio.c:412 and 434 sp_mutex_lock.
WaitLock(c) ==
    /\ pc[c] = "w_lock"
    /\ cp.sync = NoThread
    /\ cp' = [cp EXCEPT !.sync = c]
    /\ pc' = [pc EXCEPT ![c] = "w_check"]
    /\ UNCHANGED <<parg, warg, posted, delivered, calls, sres>>
    /\ UNCHANGED uvars

\* aio.c:413-416 and 435-438: an item is available, take it.
WaitPop(c) ==
    /\ pc[c] = "w_check"
    /\ cp.head # cp.tail
    /\ \E v \in ReadSlot(cp.items[cp.head]) :
          /\ warg' = [warg EXCEPT ![c].out = v, ![c].popped = TRUE]
          /\ delivered' = Append(delivered, v)
    /\ cp' = CpAdvanceHead(cp)
    /\ pc' = [pc EXCEPT ![c] = "w_unsignal"]
    /\ UNCHANGED <<parg, posted, calls, sres>>
    /\ UNCHANGED uvars

\* aio.c:417-420 and 439-442: unsignal when the pop emptied the queue,
\* unlock, return 0.
WaitUnsignal(c) ==
    /\ pc[c] = "w_unsignal"
    /\ cp' = [CpUnsignal(cp) EXCEPT !.sync = NoThread]
    /\ warg' = [warg EXCEPT ![c].rc = 0]
    /\ pc' = [pc EXCEPT ![c] = "w_done"]
    /\ UNCHANGED <<parg, posted, delivered, calls, sres>>
    /\ UNCHANGED uvars

\* aio.c:413, 422: first check finds the queue empty; unlock and go on to
\* the poller.
WaitEmptyFirst(c) ==
    /\ pc[c] = "w_check"
    /\ cp.head = cp.tail
    /\ warg[c].pass = 1
    /\ cp' = [cp EXCEPT !.sync = NoThread]
    /\ pc' = [pc EXCEPT ![c] = "w_poll"]
    /\ UNCHANGED <<parg, warg, posted, delivered, calls, sres>>
    /\ UNCHANGED uvars

\* aio.c:446-447: the return value of sp_cp_wait after a spurious wake-up.
CpSpuriousRc == -ETIMEDOUT

\* aio.c:435, 444-447: second check finds the queue empty (spurious
\* wake-up); unlock and return -ETIMEDOUT.
WaitEmptySecond(c) ==
    /\ pc[c] = "w_check"
    /\ cp.head = cp.tail
    /\ warg[c].pass = 2
    /\ cp' = [cp EXCEPT !.sync = NoThread]
    /\ warg' = [warg EXCEPT ![c].rc = CpSpuriousRc]
    /\ pc' = [pc EXCEPT ![c] = "w_done"]
    /\ UNCHANGED <<parg, posted, delivered, calls, sres>>
    /\ UNCHANGED uvars

\* sp_poller_wait as called at aio.c:425. The poller watches the eventfd
\* for input (aio.c:354-356), level-triggered: it reports the event while
\* the eventfd is signalled, times out when it is not and the timeout is
\* not negative, and may be interrupted while it blocks.
PollerWait(q, timeout) ==
    IF q.eventfd THEN {0}
    ELSE (IF timeout >= 0 THEN {-ETIMEDOUT} ELSE {})
         \cup (IF timeout # 0 THEN {-EINTR} ELSE {})

\* aio.c:425, 428-434: the poller reports the eventfd; check again.
WaitPollEvent(c) ==
    /\ pc[c] = "w_poll"
    /\ 0 \in PollerWait(cp, warg[c].timeout)
    /\ warg' = [warg EXCEPT ![c].pass = 2]
    /\ pc' = [pc EXCEPT ![c] = "w_lock"]
    /\ UNCHANGED <<cp, parg, posted, delivered, calls, sres>>
    /\ UNCHANGED uvars

\* aio.c:425-427: the poller fails with -ETIMEDOUT or -EINTR; return it.
WaitPollFail(c) ==
    /\ pc[c] = "w_poll"
    /\ \E rc \in PollerWait(cp, warg[c].timeout) \ {0} :
          warg' = [warg EXCEPT ![c].rc = rc]
    /\ pc' = [pc EXCEPT ![c] = "w_done"]
    /\ UNCHANGED <<cp, parg, posted, delivered, calls, sres>>
    /\ UNCHANGED uvars

\* sp_cp_wait has returned; the caller takes the result.
WaitReturn(c) ==
    /\ pc[c] = "w_done"
    /\ warg' = [warg EXCEPT ![c] = NoWArg]
    /\ pc' = [pc EXCEPT ![c] = "idle"]
    /\ UNCHANGED <<cp, parg, posted, delivered, calls, sres>>
    /\ UNCHANGED uvars

Next ==
    \/ \E p \in Producers : PostCall(p)
    \/ \E p \in Producers : PostLock(p)
    \/ \E p \in Producers : PostStore(p)
    \/ \E p \in Producers : PostSignal(p)
    \/ \E c \in Consumers : WaitCall(c)
    \/ \E c \in Consumers : WaitLock(c)
    \/ \E c \in Consumers : WaitPop(c)
    \/ \E c \in Consumers : WaitUnsignal(c)
    \/ \E c \in Consumers : WaitEmptyFirst(c)
    \/ \E c \in Consumers : WaitEmptySecond(c)
    \/ \E c \in Consumers : WaitPollEvent(c)
    \/ \E c \in Consumers : WaitPollFail(c)
    \/ \E c \in Consumers : WaitReturn(c)

Spec == Init /\ [][Next]_vars

\* The steps of a thread that need nothing but the processor: a producer
\* inside sp_cp_post, and a consumer that calls sp_cp_wait again and again.
\* The poller wait ends by itself only when its timeout is not negative.
ProducerRun(p) == PostStore(p) \/ PostSignal(p)
ConsumerRun(c) ==
    \/ WaitCall(c)
    \/ WaitPop(c)
    \/ WaitUnsignal(c)
    \/ WaitEmptyFirst(c)
    \/ WaitEmptySecond(c)
    \/ WaitPollEvent(c)
    \/ (WaitPollFail(c) /\ warg[c].timeout >= 0)
    \/ WaitReturn(c)

\* Fair scheduling: a thread that can run does run, and a thread that
\* waits for the mutex gets it (sp_mutex_lock does not starve).
Fairness ==
    /\ \A p \in Producers : WF_vars(ProducerRun(p)) /\ SF_vars(PostLock(p))
    /\ \A c \in Consumers : WF_vars(ConsumerRun(c)) /\ SF_vars(WaitLock(c))

\* SpecLive: the threads of Spec under fair scheduling, with fewer posts.
NextLive == Next /\ calls' <= MaxLivePosts

SpecLive == Init /\ [][NextLive]_vars /\ Fairness

(***************************************************************************)
(* SpecSeq: one thread calls sp_cp_post and sp_cp_wait (timeout 0) in any  *)
(* order. Each call runs from sp_mutex_lock to its return without another  *)
(* thread in between, so a call is one action. The op of the n-th post is  *)
(* n: the queue never looks at the payload, and distinct payloads show     *)
(* every loss, duplication and reordering.                                 *)
(***************************************************************************)
\* sp_cp_post, aio.c:373-403.
SeqPost ==
    /\ calls < MaxSeqPosts
    /\ LET op == calls + 1
           arg == "a"
       IN  /\ cp' = CpSignal(CpStore(cp, op, arg), CpEmpty(cp))
           /\ posted' = Append(posted, Item(op, arg))
    /\ calls' = calls + 1
    /\ UNCHANGED <<pc, parg, warg, delivered, sres>>
    /\ UNCHANGED uvars

\* sp_cp_wait, aio.c:411-421: an item is available.
SeqWaitPop ==
    /\ cp.head # cp.tail
    /\ \E v \in ReadSlot(cp.items[cp.head]) :
          /\ sres' = [rc |-> 0, out |-> v]
          /\ delivered' = Append(delivered, v)
    /\ cp' = CpUnsignal(CpAdvanceHead(cp))
    /\ UNCHANGED <<pc, parg, warg, posted, calls>>
    /\ UNCHANGED uvars

\* sp_cp_wait, aio.c:422-427: the queue is empty and the poller, called
\* with timeout 0, returns -ETIMEDOUT.
SeqWaitFail ==
    /\ cp.head = cp.tail
    /\ \E rc \in PollerWait(cp, 0) \ {0} : sres' = [rc |-> rc, out |-> Unwritten]
    /\ UNCHANGED <<cp, pc, parg, warg, posted, delivered, calls>>
    /\ UNCHANGED uvars

SeqNext == SeqPost \/ SeqWaitPop \/ SeqWaitFail

SpecSeq == Init /\ [][SeqNext]_vars

(***************************************************************************)
(* SpecUsock: one thread calling the user socket operations, one call per  *)
(* action. A failed assertion ends the process: no action follows it.      *)
(***************************************************************************)
UInit ==
    /\ cp = CpInit
    /\ pc = [t \in Threads |-> "idle"]
    /\ parg = [p \in Producers |-> NoPArg]
    /\ warg = [c \in Consumers |-> NoWArg]
    /\ posted = <<>>
    /\ delivered = <<>>
    /\ calls = 0
    /\ sres = NoSRes
    /\ platform \in Platforms
    /\ usock = [u \in AllSocks |-> NoSock]
    /\ ucall = NoCall
    /\ aborted = FALSE

\* sp_usock_init, aio.c:41-81: socket () succeeds and so does every call
\* that sets an option.
UsockInitCall(u) ==
    /\ ~aborted
    /\ ~usock[u].live
    /\ \E domain \in {AF_UNIX, AF_INET, AF_INET6}, type \in {SOCK_STREAM, SOCK_DGRAM} :
          /\ usock' = [usock EXCEPT ![u] =
                          UsockInitOk(domain, type, 0, FreeFd, platform.sock_cloexec)]
          /\ ucall' = [NoCall EXCEPT !.fn = "init", !.u = u, !.domain = domain,
                                     !.type = type, !.syscall = TRUE]
    /\ UNCHANGED <<platform, aborted>>
    /\ UNCHANGED cpvars

\* sp_usock_init, aio.c:54-60: socket () fails; -errno is returned.
UsockInitFail(u) ==
    /\ ~aborted
    /\ ~usock[u].live
    /\ \E domain \in {AF_UNIX, AF_INET, AF_INET6}, type \in {SOCK_STREAM, SOCK_DGRAM} :
          ucall' = [NoCall EXCEPT !.fn = "init", !.u = u, !.domain = domain,
                                  !.type = type, !.syscall = TRUE, !.rc = -EMFILE,
                                  !.fail = "socket"]
    /\ usock' = [usock EXCEPT ![u].s = -1]
    /\ UNCHANGED <<platform, aborted>>
    /\ UNCHANGED cpvars

\* sp_usock_init, aio.c:74-78: fcntl or setsockopt fails while the new
\* handle is set up; errno_assert ends the process.
UsockInitAbort(u) ==
    /\ ~aborted
    /\ ~usock[u].live
    /\ \E domain \in {AF_UNIX, AF_INET, AF_INET6}, type \in {SOCK_STREAM, SOCK_DGRAM} :
       \E step \in TuneSteps(platform, domain,
                             IF platform.sock_cloexec
                             THEN BitOr(type, SOCK_CLOEXEC) ELSE type) :
          ucall' = [NoCall EXCEPT !.fn = "init", !.u = u, !.domain = domain,
                                  !.type = type, !.syscall = TRUE,
                                  !.ret = "errno_assert", !.fail = step]
    /\ aborted' = TRUE
    /\ UNCHANGED <<platform, usock>>
    /\ UNCHANGED cpvars

\* sp_usock_term, aio.c:456-462.
UsockTermCall(u) ==
    /\ ~aborted
    /\ usock[u].live
    /\ usock' = [usock EXCEPT ![u] = NoSock]
    /\ ucall' = [NoCall EXCEPT !.fn = "term", !.u = u, !.syscall = TRUE]
    /\ UNCHANGED <<platform, aborted>>
    /\ UNCHANGED cpvars

\* sp_cp_register_usock, aio.c:450-454.
RegisterCall(u) ==
    /\ ~aborted
    /\ ~platform.windows
    /\ usock[u].live
    /\ \E self \in Cps :
          LET r == CpRegisterUsock(self, usock[u])
          IN  /\ usock' = [usock EXCEPT ![u] = r.usock]
              /\ aborted' = (r.ret # "return")
              /\ ucall' = [NoCall EXCEPT !.fn = "register", !.u = u, !.cp = self,
                                         !.prev = usock[u].aio, !.ret = r.ret]
    /\ UNCHANGED platform
    /\ UNCHANGED cpvars

\* sp_usock_send, aio.c:507-552.
SendCall(u) ==
    /\ ~aborted
    /\ ~platform.windows
    /\ usock[u].live
    /\ \E len \in 0 .. MaxLen, flags \in FlagSets :
       \E sys \in (IF len = 0 THEN {NoSys} ELSE SendOutcomes(len)) :
          LET r == UsockSend(len, sys)
          IN  /\ ucall' = [NoCall EXCEPT !.fn = "send", !.u = u, !.len = len,
                                         !.flags = flags, !.sys = sys,
                                         !.syscall = r.syscall, !.ret = r.ret,
                                         !.rc = r.rc, !.outlen = r.outlen]
              /\ aborted' = (r.ret # "return")
    /\ UNCHANGED <<platform, usock>>
    /\ UNCHANGED cpvars

\* sp_usock_recv, aio.c:554-605.
RecvCall(u) ==
    /\ ~aborted
    /\ ~platform.windows
    /\ usock[u].live
    /\ \E len \in 0 .. MaxLen, flags \in FlagSets :
       \E sys \in (IF len = 0 THEN {NoSys} ELSE RecvOutcomes(len)) :
          LET r == UsockRecv(len, flags, sys)
          IN  /\ ucall' = [NoCall EXCEPT !.fn = "recv", !.u = u, !.len = len,
                                         !.flags = flags, !.sys = sys,
                                         !.syscall = r.syscall, !.ret = r.ret,
                                         !.rc = r.rc, !.outlen = r.outlen]
              /\ aborted' = (r.ret # "return")
    /\ UNCHANGED <<platform, usock>>
    /\ UNCHANGED cpvars

\* sp_usock_accept of the Windows build, aio.c:277-297: AcceptEx finishes
\* at once (0) or is pending (-EINPROGRESS).
AcceptWinCall(u, v) ==
    /\ ~aborted
    /\ platform.windows
    /\ usock[u].live
    /\ ~usock[v].live
    /\ usock' = [usock EXCEPT ![v] = UsockAcceptWin(usock[u], FreeFd)]
    /\ \E rc \in {0, -EINPROGRESS} :
          ucall' = [NoCall EXCEPT !.fn = "accept", !.u = v, !.syscall = TRUE,
                                  !.rc = rc]
    /\ UNCHANGED <<platform, aborted>>
    /\ UNCHANGED cpvars

\* sp_usock_accept of the POSIX build, aio.c:501-505: sp_assert (0).
AcceptPosixCall(u, v) ==
    /\ ~aborted
    /\ ~platform.windows
    /\ usock[u].live
    /\ ~usock[v].live
    /\ ucall' = [NoCall EXCEPT !.fn = "accept", !.u = v, !.ret = "sp_assert"]
    /\ aborted' = TRUE
    /\ UNCHANGED <<platform, usock>>
    /\ UNCHANGED cpvars

UNext ==
    \/ \E u \in Socks : UsockInitCall(u)
    \/ \E u \in Socks : UsockInitFail(u)
    \/ \E u \in Socks : UsockInitAbort(u)
    \/ \E u \in AllSocks : UsockTermCall(u)
    \/ \E u \in AllSocks : RegisterCall(u)
    \/ \E u \in AllSocks : SendCall(u)
    \/ \E u \in AllSocks : RecvCall(u)
    \/ \E u \in Socks, v \in AcceptSocks : AcceptWinCall(u, v)
    \/ \E u \in Socks, v \in AcceptSocks : AcceptPosixCall(u, v)

SpecUsock == UInit /\ [][UNext]_vars

(***************************************************************************)
(* Properties.                                                             *)
(***************************************************************************)
IsPrefix(s, t) == Len(s) <= Len(t) /\ \A i \in 1 .. Len(s) : s[i] = t[i]
Range(s) == {s[i] : i \in DOMAIN s}
SeqToBag(s) == [v \in Range(s) |-> Cardinality({i \in DOMAIN s : s[i] = v})]

\* C1. FIFO delivery: the pairs handed out by successful sp_cp_wait calls,
\* in the order of the pops under the mutex, followed by the pairs still in
\* the ring from head to tail, are the pairs posted, in the order of the
\* stores under the mutex; so what was delivered is a prefix of what was
\* posted, whatever the interleaving of producers and consumers.
FifoDelivery ==
    /\ IsPrefix(delivered, posted)
    /\ delivered \o Pending(cp) = posted

\* Two different pairs were posted and both consumers have popped one.
FifoWitness ==
    /\ Len(delivered) >= 2
    /\ delivered[1] # delivered[2]
    /\ \A c \in Consumers : warg[c].popped

\* C2. Growth correctness: a post that doubles the capacity keeps every
\* event: the events readable from head to tail after it are the events
\* held before it followed by the posted one, all `capacity` of them, and
\* the events delivered so far and still held are the events posted, in
\* post order.
GrowthKeepsEvents ==
    [][ /\ cp'.capacity # cp.capacity =>
             /\ posted' = Append(posted, posted'[Len(posted')])
             /\ Pending(cp') = Append(Pending(cp), posted'[Len(posted')])
             /\ Len(Pending(cp')) = cp.capacity
        /\ delivered' \o Pending(cp') = posted' ]_vars

\* The ring has just doubled while it was wrapped, head at the last slot of
\* the old buffer: 63 events delivered, 64 held.
GrowthWitness ==
    /\ cp.capacity = 2 * SP_CP_INITIAL_CAPACITY
    /\ cp.head = SP_CP_INITIAL_CAPACITY - 1
    /\ cp.tail = cp.head + SP_CP_INITIAL_CAPACITY
    /\ Len(delivered) = SP_CP_INITIAL_CAPACITY - 1
    /\ Len(posted) = Len(delivered) + SP_CP_INITIAL_CAPACITY

\* C3. Wakeup-signal invariant: while no thread holds the mutex the eventfd
\* is signalled iff head # tail; sp_cp_post reaches its signal step with
\* `empty` set exactly when the queue held nothing before its store, which
\* is exactly when the eventfd is not yet signalled; sp_cp_wait reaches its
\* unsignal step with the eventfd signalled.
SignalIffNonEmpty ==
    /\ cp.sync = NoThread => (cp.eventfd <=> cp.head # cp.tail)
    /\ \A p \in Producers : pc[p] = "p_signal" =>
          /\ parg[p].empty <=> (Len(posted) = Len(delivered) + 1)
          /\ parg[p].empty <=> ~cp.eventfd
    /\ \A c \in Consumers : pc[c] = "w_unsignal" => cp.eventfd

\* The mutex is free, an event is queued behind one that was delivered and
\* the eventfd is still signalled.
SignalWitness ==
    /\ cp.sync = NoThread
    /\ cp.eventfd
    /\ Len(delivered) >= 1
    /\ Len(posted) > Len(delivered)

\* C4. Exactly-once consumption: the pairs returned by successful
\* sp_cp_wait calls are, counted with multiplicity, among the pairs posted;
\* a call returns 0 iff it popped an item and then its outputs hold that
\* item; a consumer the poller woke that finds the queue drained returns
\* -ETIMEDOUT with its outputs unwritten.
ExactlyOnce ==
    /\ SeqToBag(delivered) \sqsubseteq SeqToBag(posted)
    /\ Len(delivered) <= Len(posted)
    /\ \A c \in Consumers : pc[c] = "w_done" =>
          /\ warg[c].rc = 0 <=> warg[c].popped
          /\ warg[c].popped => warg[c].out \in Range(delivered)
          /\ ~warg[c].popped => warg[c].out = Unwritten
          /\ (warg[c].pass = 2 /\ ~warg[c].popped) => warg[c].rc = -ETIMEDOUT

\* Both consumers were woken by the poller; one popped the only event, the
\* other found the queue drained.
ExactlyOnceWitness ==
    /\ Len(delivered) = 1
    /\ Len(posted) = 1
    /\ \E c, d \in Consumers :
          /\ pc[c] = "w_done" /\ warg[c].pass = 2 /\ warg[c].popped
          /\ pc[d] = "w_done" /\ warg[d].pass = 2 /\ ~warg[d].popped

\* C5. A call of sp_cp_wait with a negative timeout never returns
\* -ETIMEDOUT.
NegativeTimeoutNeverTimesOut ==
    \A c \in Consumers :
        (pc[c] = "w_done" /\ warg[c].timeout < 0) => warg[c].rc # -ETIMEDOUT

\* C6. sp_usock_send with a non-zero length whose send () fails with an
\* error other than would-block returns a negative error code, and returns
\* -ECONNRESET when the error is ECONNRESET or EPIPE; it does not end in an
\* assertion.
SendErrorReturnsCode ==
    (ucall.fn = "send" /\ ucall.len > 0 /\ ucall.sys.nbytes < 0
        /\ ucall.sys.errno \notin {EAGAIN, EWOULDBLOCK}) =>
       /\ ucall.ret = "return"
       /\ ucall.rc < 0
       /\ ucall.sys.errno \in {ECONNRESET, EPIPE} => ucall.rc = -ECONNRESET

\* C7. When the platform call of sp_usock_send or sp_usock_recv fails with
\* EINTR the operation returns -EINTR, and a sp_cp_wait whose poller wait
\* was interrupted returns -EINTR; no assertion, no other code.
InterruptReportedDistinctly ==
    /\ (ucall.fn \in {"send", "recv"} /\ ucall.len > 0 /\ ucall.sys.nbytes < 0
           /\ ucall.sys.errno = EINTR) =>
          (ucall.ret = "return" /\ ucall.rc = -EINTR)
    /\ \A c \in Consumers :
          (pc[c] = "w_done" /\ warg[c].pass = 1 /\ ~warg[c].popped
              /\ warg[c].timeout < 0) => warg[c].rc = -EINTR

\* C8. sp_usock_recv with a non-zero length returns -ECONNRESET, without an
\* assertion, when recv () reads zero bytes (with or without the PARTIAL
\* flag) and when it fails with ECONNRESET, ECONNREFUSED, ETIMEDOUT,
\* EHOSTUNREACH or ENOTCONN.
RecvNormalisesFatal ==
    (/\ ucall.fn = "recv"
     /\ ucall.len > 0
     /\ \/ ucall.sys.nbytes = 0
        \/ /\ ucall.sys.nbytes < 0
           /\ ucall.sys.errno \in {ECONNRESET, ECONNREFUSED, ETIMEDOUT,
                                   EHOSTUNREACH, ENOTCONN}) =>
       (ucall.ret = "return" /\ ucall.rc = -ECONNRESET /\ ~aborted)

\* The peer closed: a PARTIAL recv read zero bytes and reported the reset.
RecvNormalisesWitness ==
    /\ ucall.fn = "recv"
    /\ ucall.len > 0
    /\ ucall.sys.nbytes = 0
    /\ SP_USOCK_PARTIAL \in ucall.flags
    /\ ucall.rc = -ECONNRESET

\* C9. Single registration: right after sp_usock_init the back-reference
\* is NULL; while a socket lives, a back-reference once set never changes;
\* sp_cp_register_usock on a registered socket ends in the assertion with
\* the back-reference as it was, and on an unregistered one sets it to the
\* port given.
SingleRegistration ==
    [][ /\ \A u \in AllSocks :
             (usock[u].live /\ usock'[u].live /\ usock[u].aio # NULL) =>
                usock'[u].aio = usock[u].aio
        /\ \A u \in AllSocks :
             (~usock[u].live /\ usock'[u].live) => usock'[u].aio = NULL
        /\ (ucall'.fn = "register" /\ ucall'.prev # NULL) =>
              /\ ucall'.ret = "sp_assert"
              /\ aborted'
              /\ usock'[ucall'.u].aio = ucall'.prev
        /\ (ucall'.fn = "register" /\ ucall'.prev = NULL) =>
              /\ ucall'.ret = "return"
              /\ usock'[ucall'.u].aio = ucall'.cp ]_vars

\* A socket registered with one port was registered again with another:
\* the assertion fired and the first registration stands.
SingleRegistrationWitness ==
    /\ ucall.fn = "register"
    /\ ucall.prev # NULL
    /\ ucall.cp # ucall.prev
    /\ aborted
    /\ usock[ucall.u].aio = ucall.prev

\* C10. Partial receive: when recv () reads k bytes, 0 < k < len,
\* sp_usock_recv returns 0 with *len = k if the PARTIAL flag is passed and
\* does not return 0 otherwise; when it reads len bytes it returns 0 with
\* *len = len, whatever the flags.
PartialRecv ==
    (ucall.fn = "recv" /\ ucall.len > 0) =>
       /\ (0 < ucall.sys.nbytes /\ ucall.sys.nbytes < ucall.len
              /\ SP_USOCK_PARTIAL \in ucall.flags) =>
             (ucall.ret = "return" /\ ucall.rc = 0
                 /\ ucall.outlen = ucall.sys.nbytes)
       /\ (0 < ucall.sys.nbytes /\ ucall.sys.nbytes < ucall.len
              /\ SP_USOCK_PARTIAL \notin ucall.flags) =>
             ~(ucall.ret = "return" /\ ucall.rc = 0)
       /\ ucall.sys.nbytes = ucall.len =>
             (ucall.ret = "return" /\ ucall.rc = 0
                 /\ ucall.outlen = ucall.len)

\* A PARTIAL recv of 3 bytes read 1 byte and reported success with 1.
PartialRecvWitness ==
    /\ ucall.fn = "recv"
    /\ SP_USOCK_PARTIAL \in ucall.flags
    /\ ucall.sys.nbytes > 0
    /\ ucall.sys.nbytes < ucall.len
    /\ ucall.rc = 0
    /\ ucall.ret = "return"
    /\ ucall.outlen = ucall.sys.nbytes

\* C11. After a successful sp_usock_init with domain AF_INET or AF_INET6
\* and type SOCK_STREAM, Nagle's algorithm is switched off on the new
\* handle, whether or not the build or-s SOCK_CLOEXEC into the type.
NagleDisabledOnTcp ==
    (/\ ucall.fn = "init"
     /\ ucall.ret = "return"
     /\ ucall.rc = 0
     /\ ucall.domain \in {AF_INET, AF_INET6}
     /\ ucall.type = SOCK_STREAM) =>
       (usock[ucall.u].live /\ usock[ucall.u].nodelay)

\* C12. Every live user socket, produced by sp_usock_init or filled in by
\* sp_usock_accept, has its handle in non-blocking mode.
AllHandlesNonBlocking ==
    \A u \in AllSocks : usock[u].live => usock[u].nonblock

\* C13. A failure while sp_usock_init sets up the handle, of socket () or
\* of a call that sets an option, makes sp_usock_init return a negative
\* errno value; the process is not aborted.
SetupFailureReturned ==
    (ucall.fn = "init" /\ ucall.fail # "none") =>
       (ucall.ret = "return" /\ ucall.rc < 0 /\ ~aborted)

\* C14. Zero-length I/O: sp_usock_send and sp_usock_recv of the POSIX build
\* called with *len = 0 return 0 without calling send () / recv (), for
\* any flags, and leave *len at 0.
ZeroLengthIo ==
    (ucall.fn \in {"send", "recv"} /\ ucall.len = 0) =>
       /\ ucall.ret = "return"
       /\ ucall.rc = 0
       /\ ~ucall.syscall
       /\ ucall.outlen = 0
       /\ ~aborted

\* A recv of zero bytes with the PARTIAL flag returned 0.
ZeroLengthWitness ==
    /\ ucall.fn = "recv"
    /\ ucall.len = 0
    /\ SP_USOCK_PARTIAL \in ucall.flags
    /\ ucall.rc = 0
    /\ usock[ucall.u].live

\* C17. On the POSIX build sp_usock_send and sp_usock_recv never return
\* -EINPROGRESS: a would-block error, a short send and a short receive
\* without the PARTIAL flag each end in an assertion, and a call that
\* returns does so with 0, -EINTR or -ECONNRESET.
NeverPending ==
    (ucall.fn \in {"send", "recv"}) =>
       /\ ucall.ret = "return" => ucall.rc \in {0, -EINTR, -ECONNRESET}
       /\ (ucall.len > 0 /\ ucall.sys.nbytes < 0
              /\ ucall.sys.errno \in {EAGAIN, EWOULDBLOCK}) =>
             (ucall.ret # "return" /\ aborted)
       /\ (ucall.fn = "send" /\ 0 < ucall.sys.nbytes
              /\ ucall.sys.nbytes < ucall.len) =>
             (ucall.ret # "return" /\ aborted)
       /\ (ucall.fn = "recv" /\ 0 < ucall.sys.nbytes
              /\ ucall.sys.nbytes < ucall.len
              /\ SP_USOCK_PARTIAL \notin ucall.flags) =>
             (ucall.ret # "return" /\ aborted)

\* A send of 2 or more bytes transferred fewer and the process was aborted.
NeverPendingWitness ==
    /\ ucall.fn = "send"
    /\ 0 < ucall.sys.nbytes
    /\ ucall.sys.nbytes < ucall.len
    /\ ucall.ret = "sp_assert"
    /\ aborted

\* c is SP_CP_INITIAL_CAPACITY * 2^k for some k >= 0.
RECURSIVE IsDoubled(_)
IsDoubled(c) ==
    \/ c = SP_CP_INITIAL_CAPACITY
    \/ c > SP_CP_INITIAL_CAPACITY /\ c % 2 = 0 /\ IsDoubled(c \div 2)

\* C16. The capacity is 64 * 2^k in every state, 64 until the first
\* doubling; a step changes it only by doubling it, only in a post, and a
\* post doubles it exactly when its advanced tail equals head; a wait
\* leaves it alone and it never decreases.
CapacityDoubles ==
    [][ /\ IsDoubled(cp.capacity) /\ IsDoubled(cp'.capacity)
        /\ Len(posted) < SP_CP_INITIAL_CAPACITY - 1 =>
              cp'.capacity = SP_CP_INITIAL_CAPACITY
        /\ cp'.capacity >= cp.capacity
        /\ cp'.capacity # cp.capacity =>
              /\ cp'.capacity = 2 * cp.capacity
              /\ posted' # posted
              /\ delivered' = delivered
        /\ posted' # posted =>
              (cp'.capacity # cp.capacity
                  <=> (cp.tail + 1) % cp.capacity = cp.head)
        /\ delivered' # delivered => cp'.capacity = cp.capacity ]_vars

\* The capacity has doubled twice, the second time with head off zero.
CapacityWitness ==
    /\ cp.capacity = 4 * SP_CP_INITIAL_CAPACITY
    /\ cp.head > 0
    /\ cp.tail = cp.head + 2 * SP_CP_INITIAL_CAPACITY

\* C18. Ring structure, whenever the mutex is free: head and tail are
\* inside the buffer, which has `capacity` slots; the number of events not
\* yet delivered is (tail - head) mod capacity and at most capacity - 1, so
\* head = tail exactly when there is none; the slot at tail holds none of
\* them.
RingStructure ==
    cp.sync = NoThread =>
       LET n == Len(posted) - Len(delivered)
       IN  /\ cp.head \in 0 .. cp.capacity - 1
           /\ cp.tail \in 0 .. cp.capacity - 1
           /\ DOMAIN cp.items = 0 .. cp.capacity - 1
           /\ n = (cp.tail - cp.head + cp.capacity) % cp.capacity
           /\ n <= cp.capacity - 1
           /\ (cp.head = cp.tail) <=> (n = 0)
           /\ \A i \in 0 .. n - 1 : (cp.head + i) % cp.capacity # cp.tail

\* The doubled ring is one short of full and wrapped.
RingWitness ==
    /\ cp.capacity = 2 * SP_CP_INITIAL_CAPACITY
    /\ Len(posted) - Len(delivered) = cp.capacity - 1
    /\ cp.tail < cp.head

\* C20. A failing wait changes nothing: no step of sp_cp_wait changes tail,
\* capacity or the stored events; a step of a call that has not popped
\* leaves head and the eventfd as they are and its outputs unwritten; a
\* call that returns -ETIMEDOUT or -EINTR has not popped; no step of
\* sp_cp_post changes head.
FailingWaitFrame ==
    [][ /\ \A c \in Consumers : pc'[c] # pc[c] =>
              /\ cp'.tail = cp.tail
              /\ cp'.capacity = cp.capacity
              /\ cp'.items = cp.items
              /\ ~warg'[c].popped =>
                    /\ cp'.head = cp.head
                    /\ cp'.eventfd = cp.eventfd
                    /\ warg'[c].out = Unwritten
        /\ \A c \in Consumers :
              (pc'[c] = "w_done" /\ warg'[c].rc \in {-ETIMEDOUT, -EINTR}) =>
                 (~warg'[c].popped /\ warg'[c].out = Unwritten)
        /\ \A p \in Producers : pc'[p] # pc[p] => cp'.head = cp.head ]_vars

\* One consumer returned -ETIMEDOUT after a spurious wake-up, the other
\* was interrupted, and an event posted since then waits in the queue.
FailingWaitWitness ==
    /\ Len(delivered) >= 1
    /\ cp.head # cp.tail
    /\ cp.eventfd
    /\ \E c, d \in Consumers :
          /\ pc[c] = "w_done" /\ warg[c].pass = 2 /\ warg[c].rc = -ETIMEDOUT
          /\ pc[d] = "w_done" /\ warg[d].rc = -EINTR

\* C15. Timeout on an empty queue: a sp_cp_wait called with timeout >= 0
\* while the queue is empty, with no sp_cp_post called before it returns,
\* returns -ETIMEDOUT and no event.
TimeoutOnEmptyQueue ==
    \A c \in Consumers :
       (pc[c] = "w_done" /\ warg[c].quiet /\ warg[c].timeout >= 0) =>
          (warg[c].rc = -ETIMEDOUT /\ ~warg[c].popped
              /\ warg[c].out = Unwritten)

\* C15 as amended: such a call terminates, never returns an event, and
\* returns what its one poller wait reports: -ETIMEDOUT, or -EINTR when a
\* signal interrupts the wait; with timeout 0 it returns -ETIMEDOUT.
TimeoutOrInterruptOnEmptyQueue ==
    /\ [](\A c \in Consumers :
            (pc[c] = "w_done" /\ warg[c].quiet /\ warg[c].timeout >= 0) =>
               /\ warg[c].rc \in {-ETIMEDOUT, -EINTR}
               /\ warg[c].timeout = 0 => warg[c].rc = -ETIMEDOUT
               /\ warg[c].pass = 1
               /\ ~warg[c].popped
               /\ warg[c].out = Unwritten)
    /\ \A c \in Consumers :
          (pc[c] = "w_lock" /\ warg[c].quiet /\ warg[c].timeout >= 0)
             ~> (pc[c] = "w_done" \/ ~warg[c].quiet)

\* A wait with a positive timeout on the empty queue, with nothing posted
\* meanwhile, has returned -ETIMEDOUT after events were delivered earlier.
TimeoutWitness ==
    \E c \in Consumers :
       /\ pc[c] = "w_done"
       /\ warg[c].quiet
       /\ warg[c].timeout > 0
       /\ warg[c].rc = -ETIMEDOUT
       /\ Len(delivered) >= 1

\* C19. No lost wakeup: while events are queued and the mutex is free, the
\* poller wait of every consumer that found the queue empty reports the
\* eventfd; under fair scheduling, with consumers calling sp_cp_wait again
\* and again, the n-th posted event is eventually delivered, for every n.
NoLostWakeup ==
    /\ [](\A c \in Consumers :
            (pc[c] = "w_poll" /\ cp.sync = NoThread /\ cp.head # cp.tail) =>
               PollerWait(cp, warg[c].timeout) = {0})
    /\ \A n \in 1 .. MaxLivePosts :
          (Len(posted) >= n) ~> (Len(delivered) >= n)

\* Both consumers block in the poller without a timeout while an event
\* posted after they found the queue empty is queued and signalled.
NoLostWakeupWitness ==
    /\ cp.sync = NoThread
    /\ cp.head # cp.tail
    /\ cp.eventfd
    /\ \A c \in Consumers : pc[c] = "w_poll" /\ warg[c].timeout < 0

====
